---- MODULE Spec2Model ----
(***************************************************************************)
(* Model of alg/gdalwarpkernel.cpp (GDALWarpKernel, revision 1.2):         *)
(* GDALWarpKernel::PerformWarp, Validate, GWKGeneralCase and the pixel     *)
(* accessors GWKGetPixelValue / GWKSetPixelValue.                          *)
(*                                                                         *)
(* Numbers.  A C double is modelled exactly as a triple <<hi, lo, h>>      *)
(* standing for hi*65536 + lo + h/2 with lo in 0..65535 and h in {0,1}:    *)
(* every value the kernel handles here is an integer or an integer plus    *)
(* one half, and the 32 bit limits do not fit the checker's integers.      *)
(* Integer buffer elements are such triples with h = 0.  NaN and the       *)
(* infinities are outside the modelled input domain.                       *)
(*                                                                         *)
(* Validity masks.  A GUInt32 mask word is modelled as the set of the bit  *)
(* positions (0..31) that are set; the word is non-zero iff the set is     *)
(* non-empty.                                                              *)
(***************************************************************************)
EXTENDS Integers, Sequences, FiniteSets, TLC

VARIABLES
    poWK,            \* the GDALWarpKernel record (all fields but the destination buffers)
    papabyDstImage,  \* poWK->papabyDstImage: band -> buffer (slot -> element)
    panDstValid,     \* poWK->panDstValid: NULL or a pointer to the packed validity words
    pafDstDensity,   \* poWK->pafDstDensity: NULL or a pointer to the density plane
    pc,              \* position inside PerformWarp
    iDstY,           \* GWKGeneralCase local: current destination line
    eErr,            \* GWKGeneralCase local / PerformWarp result
    dstBefore,       \* history: the destination buffers when PerformWarp was entered
    written,         \* history: the GWKSetPixelValue calls made by the warp so far
    transformerCalls,\* history: overall results returned by pfnTransformer, in call order
    progressCalls,   \* history: the pfnProgress calls, in call order
    stored,          \* history: the last direct GWKSetPixelValue call (codec specification)
    sampled,         \* history: the source pixels handed to GWKGetPixelValue by the warp
    env              \* the build: what an out-of-range (int) cast and a read outside an
                     \* array yield

vars == <<poWK, papabyDstImage, panDstValid, pafDstDensity, pc, iDstY, eErr, dstBefore, written,
          transformerCalls, progressCalls, stored, sampled, env>>

\* a NULL pointer, and a pointer to x
NULL == [null |-> TRUE]

Ptr(x) == [null |-> FALSE, to |-> x]
CE_None == "CE_None"
CE_Failure == "CE_Failure"

(***************************************************************************)
(* Doubles.                                                                *)
(***************************************************************************)
\* the double holding the integer n (|n| < 2^31)
DInt(n) == <<n \div 65536, n % 65536, 0>>

\* the double n + 0.5
DHalf(n) == <<n \div 65536, n % 65536, 1>>

\* the double hi*65536 + lo
DBig(hi, lo) == <<hi, lo, 0>>

\* a < b on doubles
DLess(a, b) ==
    \/ a[1] < b[1]
    \/ a[1] = b[1] /\ a[2] < b[2]
    \/ a[1] = b[1] /\ a[2] = b[2] /\ a[3] < b[3]

\* a + b on doubles (exact in the modelled range)
DAdd(a, b) ==
    LET h  == a[3] + b[3]
        lo == a[2] + b[2] + (h \div 2)
    IN  <<a[1] + b[1] + (lo \div 65536), lo % 65536, h % 2>>

\* -a
DNeg(a) ==
    LET n == IF a[2] = 0 THEN <<-a[1], 0, 0>> ELSE <<-a[1] - 1, 65536 - a[2], 0>>
    IN  IF a[3] = 0 THEN n ELSE DAdd(n, <<-1, 65535, 1>>)

\* a C cast of an in-range double to an integer type: truncation toward zero
CastToInteger(a) ==
    IF a[3] = 0 THEN a
    ELSE IF a[1] >= 0 THEN <<a[1], a[2], 0>>
    ELSE DAdd(<<a[1], a[2], 0>>, DInt(1))

\* the integer held by a small integral double
DToInt(a) == a[1] * 65536 + a[2]

\* the limits of int
INT_MAX == 2147483647

INT_MIN == -INT_MAX - 1

\* (int) a. The conversion is undefined when the truncated value is no int:
\* env.cast is what the build yields then
CastToInt(a) ==
    LET t == CastToInteger(a)
    IN  IF t[1] >= -32768 /\ t[1] <= 32767 THEN DToInt(t) ELSE env.cast

\* the builds: an out-of-range cast yields INT_MIN (the x86 conversion
\* instructions) or saturates to INT_MAX; a read outside an array faults,
\* or yields zero bytes, or yields other data
Envs == [cast : {INT_MIN, INT_MAX}, wild : {"fault", "zero", "data"}]

\* a mask word / a double read from outside an array by a build that does not fault
WildWord == IF env.wild = "data" THEN {0} ELSE {}

WildDouble == IF env.wild = "data" THEN DInt(1) ELSE DInt(0)

RECURSIVE FloatUlp(_)
\* spacing of the float32 values around hi*65536 (hi >= 128, i.e. >= 2^23)
FloatUlp(hi) == IF hi < 256 THEN 1 ELSE 2 * FloatUlp(hi \div 2)

\* round a non-negative double to float32, round-to-nearest-even (24 bit significand)
FloatRoundMagnitude(m) ==
    IF m[1] < 128 THEN m
    ELSE LET ulp == FloatUlp(m[1])
             q   == m[2] \div ulp
             r2  == 2 * (m[2] % ulp) + m[3]
             up  == r2 > ulp \/ (r2 = ulp /\ q % 2 = 1)
             lo  == (q + (IF up THEN 1 ELSE 0)) * ulp
         IN  <<m[1] + (lo \div 65536), lo % 65536, 0>>

\* (float) a
CastToFloat(a) ==
    IF a[1] < 0 THEN DNeg(FloatRoundMagnitude(DNeg(a))) ELSE FloatRoundMagnitude(a)

(***************************************************************************)
(* Element formats (GDALDataType) and resampling modes (GDALResampleAlg).  *)
(***************************************************************************)
RealTypes == {"GDT_Byte", "GDT_Int16", "GDT_UInt16", "GDT_Int32", "GDT_UInt32",
              "GDT_Float32", "GDT_Float64"}

ComplexTypes == {"GDT_CInt16", "GDT_CInt32", "GDT_CFloat32", "GDT_CFloat64"}

DataTypes == RealTypes \cup ComplexTypes \cup {"GDT_Unknown"}

ResampleAlgs == {"GRA_NearestNeighbour", "GRA_Bilinear", "GRA_Cubic"}

\* number of buffer slots taken by one element of the format
SlotsPerElement(eType) == IF eType \in ComplexTypes THEN 2 ELSE 1

(***************************************************************************)
(* GWKSetPixelValue.                                                       *)
(***************************************************************************)
\* the three-way test used by every integer case of GWKSetPixelValue:
\* if( v < low ) lowValue; else if( v > high ) highValue; else (T) v
StoreInteger(v, low, lowValue, high, highValue) ==
    IF DLess(v, low) THEN lowValue
    ELSE IF DLess(high, v) THEN highValue
    ELSE CastToInteger(v)

\* case GDT_Int32 of GWKSetPixelValue
StoreInt32(v) ==
    StoreInteger(v, DBig(32768, 0), DInt(0), DBig(32767, 65535), DBig(32767, 65535))

\* case GDT_CInt32 of GWKSetPixelValue (one component)
StoreCInt32(v) ==
    StoreInteger(v, DBig(-32768, 0), DBig(-32768, 0), DBig(32767, 65535), DBig(32767, 65535))

\* the destination buffer of one band after
\* GWKSetPixelValue( poWK, iBand, iDstOffset, dfDensity, dfReal, dfImag );
\* pabyDst is poWK->papabyDstImage[iBand].  dfDensity is not used by the code.
GWKSetPixelValue(wk, pabyDst, iDstOffset, dfDensity, dfReal, dfImag) ==
    LET t == wk.eWorkingDataType
        i == iDstOffset
    IN  CASE t = "GDT_Byte" ->
               [pabyDst EXCEPT ![i] = StoreInteger(dfReal, DInt(0), DInt(0), DInt(255), DInt(255))]
          [] t = "GDT_Int16" ->
               [pabyDst EXCEPT ![i] = StoreInteger(dfReal, DInt(-32768), DInt(-32768),
                                                   DInt(32767), DInt(32767))]
          [] t = "GDT_UInt16" ->
               [pabyDst EXCEPT ![i] = StoreInteger(dfReal, DInt(0), DInt(0),
                                                   DInt(65535), DInt(65535))]
          [] t = "GDT_UInt32" ->
               [pabyDst EXCEPT ![i] = StoreInteger(dfReal, DInt(0), DInt(0),
                                                   DBig(65535, 65535), DBig(65535, 65535))]
          [] t = "GDT_Int32" ->
               [pabyDst EXCEPT ![i] = StoreInt32(dfReal)]
          [] t = "GDT_Float32" ->
               [pabyDst EXCEPT ![i] = CastToFloat(dfReal)]
          [] t = "GDT_Float64" ->
               [pabyDst EXCEPT ![i] = dfReal]
          [] t = "GDT_CInt16" ->
               [pabyDst EXCEPT
                  ![i * 2] = StoreInteger(dfReal, DInt(-32768), DInt(-32768),
                                          DInt(32767), DInt(32767)),
                  ![i * 2 + 1] = StoreInteger(dfImag, DInt(-32768), DInt(-32768),
                                              DInt(32767), DInt(32767))]
          [] t = "GDT_CInt32" ->
               [pabyDst EXCEPT ![i * 2] = StoreCInt32(dfReal),
                               ![i * 2 + 1] = StoreCInt32(dfImag)]
          [] t = "GDT_CFloat32" ->
               [pabyDst EXCEPT ![i * 2] = CastToFloat(dfReal),
                               ![i * 2 + 1] = CastToFloat(dfImag)]
          [] t = "GDT_CFloat64" ->
               [pabyDst EXCEPT ![i * 2] = dfReal, ![i * 2 + 1] = dfImag]
          [] OTHER -> pabyDst

(***************************************************************************)
(* GWKGetPixelValue.                                                       *)
(***************************************************************************)
\* C's  word && (0x01 << (iOffset & 0x1f)) : a logical AND of two integers,
\* true iff both are non-zero; 0x01 << k is non-zero for every k in 0..31
WordAndAndBit(word, iOffset) == word # {} /\ (iOffset % 32) \in 0 .. 31

\* pan[iOffset>>5]
MaskWord(pan, iOffset) ==
    IF (iOffset \div 32) \in DOMAIN pan THEN pan[iOffset \div 32] ELSE WildWord

\* iSrcOffset is the index of a pixel of the source image
InSource(wk, iSrcOffset) == iSrcOffset \in 0 .. wk.nSrcXSize * wk.nSrcYSize - 1

\* SrcComponent with the element index used as the slot index for every format
SrcComponent_SlotIsElement(wk, pabySrc, iSrcOffset, k) ==
    IF InSource(wk, iSrcOffset) THEN pabySrc[iSrcOffset + k] ELSE WildDouble

\* component k (0 real, 1 imaginary) of element iSrcOffset of a band buffer
SrcComponent(wk, pabySrc, iSrcOffset, k) ==
    IF InSource(wk, iSrcOffset)
    THEN pabySrc[iSrcOffset * SlotsPerElement(wk.eWorkingDataType) + k]
    ELSE WildDouble

\* UnifiedSrcInvalid with the negation of the mask test left out
UnifiedSrcInvalid_NoNegation(wk, iSrcOffset) ==
    /\ wk.panUnifiedSrcValid # NULL
    /\ WordAndAndBit(MaskWord(wk.panUnifiedSrcValid.to, iSrcOffset), iSrcOffset)

\* if( panUnifiedSrcValid != NULL && !(panUnifiedSrcValid[iSrcOffset>>5] && (0x01 << ...)) )
UnifiedSrcInvalid(wk, iSrcOffset) ==
    /\ wk.panUnifiedSrcValid # NULL
    /\ ~ WordAndAndBit(MaskWord(wk.panUnifiedSrcValid.to, iSrcOffset), iSrcOffset)

\* if( papanBandSrcValid != NULL && papanBandSrcValid[iBand] != NULL && !(... && ...) )
BandSrcInvalid(wk, iBand, iSrcOffset) ==
    /\ wk.papanBandSrcValid # NULL
    /\ wk.papanBandSrcValid.to[iBand] # NULL
    /\ ~ WordAndAndBit(MaskWord(wk.papanBandSrcValid.to[iBand].to, iSrcOffset), iSrcOffset)

\* the density assigned at the end of GWKGetPixelValue
SrcDensity(wk, iSrcOffset) ==
    IF wk.pafUnifiedSrcDensity = NULL THEN DInt(1)
    ELSE IF InSource(wk, iSrcOffset) THEN wk.pafUnifiedSrcDensity.to[iSrcOffset]
    ELSE WildDouble

\* GWKGetPixelValue( poWK, iBand, iSrcOffset, &dfDensity, &dfReal, &dfImag ):
\* pdf holds the three output variables as the caller left them; the result
\* holds them after the call, with the returned flag in ret.
GWKGetPixelValue(wk, iBand, iSrcOffset, pdf) ==
    LET pabySrc == wk.papabySrcImage[iBand]
        t       == wk.eWorkingDataType
    IN  IF UnifiedSrcInvalid(wk, iSrcOffset) \/ BandSrcInvalid(wk, iBand, iSrcOffset)
        THEN [pdf EXCEPT !.dfDensity = DInt(0)] @@ [ret |-> FALSE]
        ELSE IF t \in RealTypes
        THEN LET d == SrcDensity(wk, iSrcOffset)
             IN  [ret |-> d # DInt(0), dfDensity |-> d,
                  dfReal |-> SrcComponent(wk, pabySrc, iSrcOffset, 0), dfImag |-> DInt(0)]
        ELSE IF t \in ComplexTypes
        THEN LET d == SrcDensity(wk, iSrcOffset)
             IN  [ret |-> d # DInt(0), dfDensity |-> d,
                  dfReal |-> SrcComponent(wk, pabySrc, iSrcOffset, 0),
                  dfImag |-> SrcComponent(wk, pabySrc, iSrcOffset, 1)]
        ELSE [pdf EXCEPT !.dfDensity = DInt(0)] @@ [ret |-> FALSE]

(***************************************************************************)
(* GWKGeneralCase: one destination scanline.                               *)
(***************************************************************************)
\* nResWinSize as set from poWK->eResample
ResWinSize(wk) ==
    IF wk.eResample = "GRA_Cubic" THEN 2
    ELSE IF wk.eResample = "GRA_Bilinear" THEN 1
    ELSE 0

\* padfX[iDstX] / padfY[iDstX] as set up before the transformer call
SetupX(wk, iDstX) == DAdd(DHalf(iDstX), DInt(wk.nDstXOff))

SetupY(wk, iY) == DAdd(DHalf(iY), DInt(wk.nDstYOff))

\* the caller's transformer, as described by pTransformerArg: it moves every
\* point by (dx, dy) and flags the points it could map in pabSuccess
TransformX(wk, iDstX) == DAdd(SetupX(wk, iDstX), wk.pTransformerArg.dx)

TransformY(wk, iY) == DAdd(SetupY(wk, iY), wk.pTransformerArg.dy)

TransformSuccess(wk, iDstX) ==
    CASE wk.pTransformerArg.ok = "all"  -> 1
      [] wk.pTransformerArg.ok = "none" -> 0
      [] OTHER -> iDstX % 2

\* PointNotMapped with the test of pabSuccess left out
PointNotMapped_Never(bSuccess) == FALSE

\* if( !pabSuccess[iDstX] ) continue;
PointNotMapped(bSuccess) == bSuccess = 0

\* the first reject test: the coordinate is left of / above the window
OffSourceLow(wk, dfX, dfY) ==
    \/ DLess(dfX, DInt(wk.nSrcXOff + ResWinSize(wk)))
    \/ DLess(dfY, DInt(wk.nSrcYOff + ResWinSize(wk)))

\* iSrcX = ((int) padfX[iDstX]) - poWK->nSrcXOff
SrcIndex(df, nOff) == CastToInt(df) - nOff

\* the second reject test
OffSourceHigh(wk, iSrcX, iSrcY) ==
    \/ iSrcX >= wk.nSrcXSize - ResWinSize(wk)
    \/ iSrcY >= wk.nSrcYSize - ResWinSize(wk)

\* DstAlreadyValid with the test of the destination mask left out
DstAlreadyValid_Never(panValid, iDstOffset) == FALSE

\* if( panDstValid != NULL && (panDstValid[iDstOffset>>5] && (0x01 << (iDstOffset & 0x1f))) )
DstAlreadyValid(panValid, iDstOffset) ==
    /\ panValid # NULL
    /\ WordAndAndBit(panValid.to[iDstOffset \div 32], iDstOffset)

\* the source value collected for one band: dfDensity, dfValueReal and
\* dfValueImag start at 0.0 and only the nearest neighbour branch fills them
CollectSource(wk, iBand, iSrcOffset) ==
    LET zero == [dfDensity |-> DInt(0), dfReal |-> DInt(0), dfImag |-> DInt(0)]
    IN  IF wk.eResample = "GRA_NearestNeighbour"
        THEN GWKGetPixelValue(wk, iBand, iSrcOffset, zero)
        ELSE zero @@ [ret |-> FALSE]

\* the GWKGetPixelValue call of the nearest neighbour branch reads outside
\* the source arrays and the build faults on it
LoadFaults(wk, iSrcOffset) ==
    /\ wk.eResample = "GRA_NearestNeighbour"
    /\ ~ InSource(wk, iSrcOffset)
    /\ env.wild = "fault"

RECURSIVE BandLoop(_, _, _, _, _)
\* for( iBand = 0; iBand < poWK->nBands; iBand++ ) from iBand on; st holds the
\* destination buffers (img, valid, density), the log of the
\* GWKSetPixelValue calls, the log of the source pixels loaded, and fault:
\* a read outside the source arrays has ended the process
BandLoop(wk, st, iSrcOffset, iDstOffset, iBand) ==
    IF iBand >= wk.nBands THEN st
    ELSE IF LoadFaults(wk, iSrcOffset) THEN [st EXCEPT !.fault = TRUE]
    ELSE LET v == CollectSource(wk, iBand, iSrcOffset)
         IN  IF v.dfDensity = DInt(0)
             THEN BandLoop(wk, st, iSrcOffset, iDstOffset, iBand + 1)
             ELSE BandLoop(wk,
                    [st EXCEPT
                       !.img = [st.img EXCEPT ![iBand] =
                                   GWKSetPixelValue(wk, st.img[iBand], iDstOffset,
                                                    v.dfDensity, v.dfReal, v.dfImag)],
                       !.log = st.log \cup {[iBand |-> iBand, iDstOffset |-> iDstOffset,
                                           iSrcOffset |-> iSrcOffset,
                                           dfDensity |-> v.dfDensity,
                                           dfReal |-> v.dfReal, dfImag |-> v.dfImag]}],
                    iSrcOffset, iDstOffset, iBand + 1)

\* the source pixel the resampling branch hands to GWKGetPixelValue for
\* destination pixel iDstOffset: only the nearest neighbour branch makes the
\* call, once per band
SourceLoads(wk, iDstOffset, iSrcX, iSrcY, iSrcOffset) ==
    IF wk.eResample = "GRA_NearestNeighbour" /\ wk.nBands >= 1
    THEN {[iDstOffset |-> iDstOffset, iSrcX |-> iSrcX, iSrcY |-> iSrcY,
           iSrcOffset |-> iSrcOffset]}
    ELSE {}

\* the body of the pixel loop for one iDstX
PixelStep(wk, st, iY, iDstX) ==
    LET dfX == TransformX(wk, iDstX)
        dfY == TransformY(wk, iY)
        iSrcX == SrcIndex(dfX, wk.nSrcXOff)
        iSrcY == SrcIndex(dfY, wk.nSrcYOff)
        iSrcOffset == iSrcX + iSrcY * wk.nSrcXSize
        iDstOffset == iDstX + iY * wk.nDstXSize
    IN  IF st.fault THEN st
        ELSE IF PointNotMapped(TransformSuccess(wk, iDstX)) THEN st
        ELSE IF OffSourceLow(wk, dfX, dfY) THEN st
        ELSE IF OffSourceHigh(wk, iSrcX, iSrcY) THEN st
        ELSE IF DstAlreadyValid(st.valid, iDstOffset) THEN st
        ELSE BandLoop(wk,
                      [st EXCEPT !.loads = @ \cup SourceLoads(wk, iDstOffset, iSrcX, iSrcY,
                                                              iSrcOffset)],
                      iSrcOffset, iDstOffset, 0)

RECURSIVE PixelLoop(_, _, _, _)
\* for( iDstX = 0; iDstX < nDstXSize; iDstX++ ) from iDstX on
PixelLoop(wk, st, iY, iDstX) ==
    IF iDstX >= wk.nDstXSize THEN st
    ELSE PixelLoop(wk, PixelStep(wk, st, iY, iDstX), iY, iDstX + 1)

\* RowLoopContinues without the eErr test
RowLoopContinues_NoErrTest(wk, iY, err) == iY < wk.nDstYSize

\* the row loop guard: iDstY < nDstYSize && eErr == CE_None
RowLoopContinues(wk, iY, err) == iY < wk.nDstYSize /\ err = CE_None

\* the argument of a pfnProgress call made with iDstY = iY, as the fraction
\* <<numerator, denominator>> of dfProgressBase + dfProgressScale * ((iY+1) / nDstYSize)
ProgressArg(wk, iY) ==
    LET base2  == 2 * DToInt(wk.dfProgressBase) + wk.dfProgressBase[3]
        scale2 == 2 * DToInt(wk.dfProgressScale) + wk.dfProgressScale[3]
    IN  <<base2 * wk.nDstYSize + scale2 * (iY + 1), 2 * wk.nDstYSize>>

\* what a pfnProgress call can return
ProgressResults(wk) ==
    IF wk.pfnProgress = Ptr("GDALDummyProgress") THEN {TRUE} ELSE BOOLEAN

\* GDALWarpKernel::Validate()
Validate(wk) == CE_None

(***************************************************************************)
(* The kernels PerformWarp is run on.                                      *)
(***************************************************************************)
\* side of the square scenario images
ScenarioSize == 4

\* width of the wide destination, whose validity mask has two words
WideXSize == 11

\* largest band count
MaxBands == 2

\* the values an uninitialised int may hold when it is read
UninitInts == {-7, 3}

\* a packed validity plane for nPixels pixels with exactly the bits in bits set
MaskPlane(nPixels, bits) ==
    [w \in 0 .. ((nPixels + 31) \div 32) - 1 |->
        {b \in 0 .. 31 : (w * 32 + b) \in bits}]

\* the pixels a named validity pattern marks valid
MaskBits(name, nPixels) ==
    CASE name = "zero" -> {}
      [] name = "bit5" -> {5} \cap (0 .. nPixels - 1)
      [] name = "some" -> {0, 5} \cap (0 .. nPixels - 1)
      [] name = "low"  -> {i \in 0 .. nPixels - 1 : i < 32}
      [] OTHER -> 0 .. nPixels - 1

OptMask(name, nPixels) ==
    IF name = "NULL" THEN NULL ELSE Ptr(MaskPlane(nPixels, MaskBits(name, nPixels)))

\* a float density plane
DensityPlane(name, nPixels) ==
    IF name = "NULL" THEN NULL
    ELSE Ptr([i \in 0 .. nPixels - 1 |->
                CASE name = "zero" -> DInt(0)
                  [] name = "half" -> DHalf(0)
                  [] name = "mixed" -> IF i % 3 = 0 THEN DInt(0)
                                       ELSE IF i % 3 = 1 THEN DHalf(0) ELSE DInt(1)
                  [] OTHER -> DInt(1)])

\* values an element of the format can hold, the limits of the format first
TypeValues(eType) ==
    CASE eType = "GDT_Byte"   -> <<DInt(255), DInt(0), DInt(7), DInt(128)>>
      [] eType \in {"GDT_Int16", "GDT_CInt16"} ->
            <<DInt(-32768), DInt(32767), DInt(-1), DInt(7)>>
      [] eType = "GDT_UInt16" -> <<DInt(65535), DInt(0), DInt(7), DInt(32768)>>
      [] eType \in {"GDT_Int32", "GDT_CInt32"} ->
            <<DBig(-32768, 0), DBig(32767, 65535), DInt(-1), DInt(7)>>
      [] eType = "GDT_UInt32" ->
            <<DBig(65535, 65535), DInt(0), DInt(7), DBig(32768, 0)>>
      [] eType \in {"GDT_Float32", "GDT_CFloat32"} ->
            <<DHalf(2), DHalf(-1), DBig(256, 2), DInt(-7)>>
      [] eType \in {"GDT_Float64", "GDT_CFloat64"} ->
            <<DHalf(2), DHalf(-1), DBig(256, 1), <<65535, 65535, 1>> >>
      [] OTHER -> <<DInt(1), DInt(2), DInt(3), DInt(4)>>

\* the element in slot s of source band b
SrcElement(eType, fill, b, s) ==
    CASE fill = "ramp" -> DInt((s + 16 * b) % 128)
      [] fill = "tens" -> DInt(10 * ((s % 4) + 1))
      [] fill = "flat" -> DInt(9)
      [] OTHER -> TypeValues(eType)[((s + b) % 4) + 1]

\* an image of nBands bands of nPixels elements
SrcImage(eType, fill, nBands, nPixels) ==
    [b \in 0 .. nBands - 1 |->
        [s \in 0 .. nPixels * SlotsPerElement(eType) - 1 |-> SrcElement(eType, fill, b, s)]]

DstImage(eType, nBands, nPixels) ==
    [b \in 0 .. nBands - 1 |->
        [s \in 0 .. nPixels * SlotsPerElement(eType) - 1 |-> DInt(0)]]

\* the GDALWarpKernel a caller fills in from the options c
Kernel(c) ==
    LET nSrc == c.nSrcXSize * c.nSrcYSize
        nDst == c.nDstXSize * c.nDstYSize
    IN  [eResample |-> c.eResample,
         eWorkingDataType |-> c.eType,
         nBands |-> c.nBands,
         nSrcXSize |-> c.nSrcXSize, nSrcYSize |-> c.nSrcYSize,
         nSrcXOff |-> c.nSrcXOff, nSrcYOff |-> c.nSrcYOff,
         nDstXSize |-> c.nDstXSize, nDstYSize |-> c.nDstYSize,
         nDstXOff |-> c.nDstXOff, nDstYOff |-> c.nDstYOff,
         papabySrcImage |-> SrcImage(c.eType, c.fill, c.nBands, nSrc),
         panUnifiedSrcValid |-> OptMask(c.uvalid, nSrc),
         papanBandSrcValid |->
             IF c.bvalid = "NULL" THEN NULL
             ELSE Ptr([b \in 0 .. c.nBands - 1 |->
                          IF b = 0 THEN OptMask(c.bvalid, nSrc) ELSE NULL]),
         pafUnifiedSrcDensity |-> DensityPlane(c.sdens, nSrc),
         pfnTransformer |-> IF c.pfnTransformer = "NULL" THEN NULL ELSE Ptr(c.pfnTransformer),
         pTransformerArg |-> c.xform,
         pfnProgress |-> IF c.pfnProgress = "NULL" THEN NULL ELSE Ptr(c.pfnProgress),
         dfProgressBase |-> c.base,
         dfProgressScale |-> c.scale]

Move(dx, dy, ok) == [dx |-> dx, dy |-> dy, ok |-> ok]

\* the 4x4 Byte nearest neighbour identity warp without masks
Plain ==
    [eType |-> "GDT_Byte", eResample |-> "GRA_NearestNeighbour", nBands |-> 1,
     nSrcXSize |-> ScenarioSize, nSrcYSize |-> ScenarioSize,
     nDstXSize |-> ScenarioSize, nDstYSize |-> ScenarioSize,
     nSrcXOff |-> 0, nSrcYOff |-> 0, nDstXOff |-> 0, nDstYOff |-> 0,
     fill |-> "ramp", uvalid |-> "NULL", bvalid |-> "NULL", sdens |-> "NULL",
     dvalid |-> "NULL", ddens |-> "NULL",
     pfnTransformer |-> "user", xform |-> Move(DInt(0), DInt(0), "all"),
     pfnProgress |-> "user", base |-> DInt(0), scale |-> DInt(1)]

Small(c) == [c EXCEPT !.nSrcXSize = 2, !.nSrcYSize = 2, !.nDstXSize = 2, !.nDstYSize = 2]

Wide(c) == [c EXCEPT !.nSrcXSize = WideXSize, !.nSrcYSize = 3,
                     !.nDstXSize = WideXSize, !.nDstYSize = 3]

Moves ==
    {Move(DInt(0), DInt(0), "all"), Move(DInt(0), DInt(0), "odd"),
     Move(DInt(0), DInt(0), "none"), Move(DInt(-1), DInt(0), "all"),
     Move(DHalf(0), DHalf(0), "all"), Move(DInt(1), DInt(-1), "odd")}

\* every element format, both fills, one and more bands
FormatConfigs ==
    {[c EXCEPT !.eType = t, !.fill = f, !.nBands = n] :
        c \in {Plain, Small(Plain)}, t \in DataTypes, f \in {"ramp", "limits"},
        n \in {1, MaxBands}}

\* source validity and density planes
SrcMaskConfigs ==
    {[Plain EXCEPT !.eType = t, !.nBands = MaxBands, !.uvalid = u, !.bvalid = b,
                   !.sdens = d, !.xform = m] :
        t \in {"GDT_Byte", "GDT_CInt16"},
        u \in {"NULL", "zero", "bit5", "ones"}, b \in {"NULL", "zero", "bit5"},
        d \in {"NULL", "zero", "mixed"},
        m \in {Move(DInt(0), DInt(0), "all"), Move(DInt(-1), DInt(0), "all")}}

\* destination validity and density planes
DstMaskConfigs ==
    {[c EXCEPT !.dvalid = v, !.ddens = d, !.sdens = s, !.xform = m] :
        c \in {Plain, Wide(Plain)},
        v \in {"NULL", "zero", "some", "low", "ones"}, d \in {"NULL", "zero", "half"},
        s \in {"NULL", "mixed"},
        m \in {Move(DInt(0), DInt(0), "all"), Move(DInt(1), DInt(-1), "odd")}}

\* resampling modes, transformers, window offsets
ResampleConfigs ==
    {[Plain EXCEPT !.eResample = r, !.xform = m, !.uvalid = u, !.sdens = d,
                   !.nSrcXOff = o[1], !.nSrcYOff = o[2],
                   !.nDstXOff = o[3], !.nDstYOff = o[4]] :
        r \in ResampleAlgs, m \in Moves, u \in {"NULL", "zero"}, d \in {"NULL", "zero"},
        o \in {<<0, 0, 0, 0>>, <<-2, -2, -2, -2>>, <<3, 1, 3, 1>>, <<1, 0, 0, 1>>}}

\* degenerate and unvalidated settings
OddConfigs ==
    {[Plain EXCEPT !.nBands = 0], [Plain EXCEPT !.pfnProgress = "NULL"],
     [Plain EXCEPT !.pfnTransformer = "NULL"], [Plain EXCEPT !.eResample = "GRA_Unknown"],
     [Plain EXCEPT !.nDstYSize = 0], [Plain EXCEPT !.nDstXSize = 0],
     [Plain EXCEPT !.nSrcXSize = 0], [Plain EXCEPT !.nSrcYSize = 0]}
    \cup {[c EXCEPT !.pfnProgress = "GDALDummyProgress", !.base = DHalf(0),
                    !.scale = DHalf(0)] : c \in {Plain, Small(Plain)}}

\* interpolation: the 2x2 source 10, 20, 30, 40 sampled at (1.0, 1.0) into a
\* 1x1 destination, and images of one value
InterpolationConfigs ==
    {[Plain EXCEPT !.eResample = r, !.fill = "tens", !.nSrcXSize = 2, !.nSrcYSize = 2,
                   !.nDstXSize = 1, !.nDstYSize = 1,
                   !.xform = Move(DHalf(0), DHalf(0), "all")] : r \in ResampleAlgs}
    \cup {[Plain EXCEPT !.eResample = r, !.fill = "flat"] : r \in ResampleAlgs}

\* a transformer that sends every point to a finite x of 2^31 and more
FarMove == Move(DBig(32768, 0), DInt(0), "all")

FarConfigs ==
    {[Plain EXCEPT !.eType = t, !.xform = FarMove, !.uvalid = u, !.sdens = d] :
        t \in {"GDT_Byte", "GDT_CInt16"}, u \in {"NULL", "zero"}, d \in {"NULL", "zero"}}

Configs == FormatConfigs \cup SrcMaskConfigs \cup DstMaskConfigs \cup ResampleConfigs
           \cup OddConfigs \cup InterpolationConfigs \cup FarConfigs

(***************************************************************************)
(* PerformWarp.                                                            *)
(***************************************************************************)
Init ==
    /\ \E c \in Configs :
          /\ poWK = Kernel(c)
          /\ papabyDstImage = DstImage(c.eType, c.nBands, c.nDstXSize * c.nDstYSize)
          /\ panDstValid = OptMask(c.dvalid, c.nDstXSize * c.nDstYSize)
          /\ pafDstDensity = DensityPlane(c.ddens, c.nDstXSize * c.nDstYSize)
          \* the build makes a difference only where a cast is out of range
          /\ env \in IF c.xform = FarMove THEN Envs
                      ELSE {[cast |-> INT_MIN, wild |-> "fault"]}
    /\ pc = "PerformWarp"
    /\ iDstY \in UninitInts
    /\ eErr = CE_None
    /\ dstBefore = [img |-> papabyDstImage, valid |-> panDstValid,
                    density |-> pafDstDensity]
    /\ written = {}
    /\ transformerCalls = <<>>
    /\ progressCalls = <<>>
    /\ stored = NULL
    /\ sampled = {}

\* PerformWarp up to the call of GWKGeneralCase
PerformWarp ==
    /\ pc = "PerformWarp"
    /\ IF Validate(poWK) # CE_None
       THEN eErr' = Validate(poWK) /\ pc' = "done"
       ELSE eErr' = CE_None /\ pc' = "GWKGeneralCase"
    /\ UNCHANGED <<poWK, papabyDstImage, panDstValid, pafDstDensity, iDstY, dstBefore, written,
                   transformerCalls, progressCalls, stored, sampled, env>>

\* the pfnProgress call at the top of GWKGeneralCase, which reads iDstY
\* before the row loop has set it
GWKFirstProgress ==
    /\ pc = "GWKGeneralCase"
    /\ poWK.pfnProgress # NULL
    /\ \E bContinue \in ProgressResults(poWK) :
          /\ progressCalls' = Append(progressCalls,
                 [arg |-> ProgressArg(poWK, iDstY), nRowsDone |-> 0, ret |-> bContinue])
          /\ IF bContinue
             THEN pc' = "loop" /\ iDstY' = 0 /\ eErr' = CE_None
             ELSE pc' = "done" /\ iDstY' = iDstY /\ eErr' = CE_Failure
    /\ UNCHANGED <<poWK, papabyDstImage, panDstValid, pafDstDensity, dstBefore, written, transformerCalls, stored, sampled, env>>

\* a call through a NULL pfnProgress or pfnTransformer ends the process
GWKNullCall ==
    /\ \/ pc = "GWKGeneralCase" /\ poWK.pfnProgress = NULL
       \/ pc = "loop" /\ RowLoopContinues(poWK, iDstY, eErr) /\ poWK.pfnTransformer = NULL
    /\ pc' = "crashed"
    /\ UNCHANGED <<poWK, papabyDstImage, panDstValid, pafDstDensity, iDstY, eErr, dstBefore, written,
                   transformerCalls, progressCalls, stored, sampled, env>>

\* one pass of the row loop up to the progress report: set up the points,
\* call the transformer, run the pixel loop
GWKScanline ==
    /\ pc = "loop"
    /\ RowLoopContinues(poWK, iDstY, eErr)
    /\ poWK.pfnTransformer # NULL
    /\ \E bOverall \in BOOLEAN :
          transformerCalls' = Append(transformerCalls, bOverall)
    /\ LET st == PixelLoop(poWK, [img |-> papabyDstImage, valid |-> panDstValid,
                                  density |-> pafDstDensity, log |-> written,
                                  loads |-> sampled, fault |-> FALSE],
                            iDstY, 0)
       IN  /\ papabyDstImage' = st.img
           /\ panDstValid' = st.valid
           /\ pafDstDensity' = st.density
           /\ written' = st.log
           /\ sampled' = st.loads
           /\ pc' = IF st.fault THEN "crashed" ELSE "progress"
    /\ UNCHANGED <<poWK, iDstY, eErr, dstBefore, progressCalls, stored, env>>

\* the progress report that ends a pass of the row loop, and iDstY++
GWKRowProgress ==
    /\ pc = "progress"
    /\ \E bContinue \in ProgressResults(poWK) :
          /\ progressCalls' = Append(progressCalls,
                 [arg |-> ProgressArg(poWK, iDstY), nRowsDone |-> iDstY + 1,
                  ret |-> bContinue])
          /\ eErr' = IF bContinue THEN eErr ELSE CE_Failure
    /\ iDstY' = iDstY + 1
    /\ pc' = "loop"
    /\ UNCHANGED <<poWK, papabyDstImage, panDstValid, pafDstDensity, dstBefore, written, transformerCalls, stored, sampled, env>>

\* the row loop ends: cleanup and return eErr
GWKReturn ==
    /\ pc = "loop"
    /\ ~ RowLoopContinues(poWK, iDstY, eErr)
    /\ pc' = "done"
    /\ UNCHANGED <<poWK, papabyDstImage, panDstValid, pafDstDensity, iDstY, eErr, dstBefore, written,
                   transformerCalls, progressCalls, stored, sampled, env>>

Next ==
    \/ PerformWarp
    \/ GWKFirstProgress
    \/ GWKNullCall
    \/ GWKScanline
    \/ GWKRowProgress
    \/ GWKReturn

Spec == Init /\ [][Next]_vars

(***************************************************************************)
(* Direct calls of GWKSetPixelValue on a 2x2 one band destination.         *)
(***************************************************************************)
\* the dfReal values stored
StoreValues ==
    {DInt(0), DInt(5), DInt(-5), DHalf(2), DHalf(-3), DHalf(-1), DInt(255), DHalf(255),
     DInt(256), DInt(300), DInt(-32768), DInt(-32769), DHalf(-32769), DInt(32767),
     DHalf(32767), DInt(32768), DInt(65535), DInt(65536), DBig(32767, 65535),
     DBig(32768, 0), DBig(-32768, 0), DBig(-32769, 65535), <<-32769, 65535, 1>>,
     DBig(65535, 65535), <<65535, 65535, 1>>, DBig(65536, 0), DBig(256, 1)}

\* the dfImag values stored
StoreImags == {DInt(0), DHalf(-3), DInt(40000), DBig(-32769, 65535), DBig(32768, 0)}

InitCodec ==
    /\ \E t \in DataTypes :
          /\ poWK = Kernel([Small(Plain) EXCEPT !.eType = t])
          /\ papabyDstImage = DstImage(t, 1, 4)
    /\ panDstValid = NULL
    /\ pafDstDensity = NULL
    /\ env = [cast |-> INT_MIN, wild |-> "fault"]
    /\ pc = "codec"
    /\ iDstY = 0
    /\ eErr = CE_None
    /\ dstBefore = [img |-> papabyDstImage, valid |-> panDstValid,
                    density |-> pafDstDensity]
    /\ written = {}
    /\ transformerCalls = <<>>
    /\ progressCalls = <<>>
    /\ stored = NULL
    /\ sampled = {}

SetPixelValueCall ==
    /\ pc = "codec"
    /\ \E iDstOffset \in 0 .. 3, dfReal \in StoreValues, dfImag \in StoreImags :
          /\ papabyDstImage' =
                [papabyDstImage EXCEPT ![0] =
                    GWKSetPixelValue(poWK, papabyDstImage[0], iDstOffset,
                                     DInt(1), dfReal, dfImag)]
          /\ stored' = Ptr([iBand |-> 0, iDstOffset |-> iDstOffset,
                            dfReal |-> dfReal, dfImag |-> dfImag])
    /\ pc' = "stored"
    /\ UNCHANGED <<poWK, panDstValid, pafDstDensity, iDstY, eErr, dstBefore, written,
                   transformerCalls, progressCalls, sampled, env>>

NextCodec == SetPixelValueCall

SpecCodec == InitCodec /\ [][NextCodec]_vars

(***************************************************************************)
(* Properties.                                                             *)
(***************************************************************************)
\* bit (i mod 32) of word (i div 32) of an optional validity plane; an absent
\* plane counts as valid, a pixel the plane has no bit for does not
OwnBitValid(plane, i) ==
    \/ plane = NULL
    \/ (i \div 32) \in DOMAIN plane.to /\ (i % 32) \in plane.to[i \div 32]

\* the slots of element i of a buffer of the kernel's format
ElementSlots(wk, i) ==
    IF wk.eWorkingDataType \in ComplexTypes THEN {2 * i, 2 * i + 1} ELSE {i}

DstPixels(wk) == 0 .. wk.nDstXSize * wk.nDstYSize - 1

\* element i of every band is as it was when PerformWarp was entered
PixelKept(i) ==
    \A b \in DOMAIN papabyDstImage : \A s \in ElementSlots(poWK, i) :
        papabyDstImage[b][s] = dstBefore.img[b][s]

\* C1: under nearest neighbour resampling a source pixel is written to the
\* destination only if its own bit is set in panUnifiedSrcValid (when present)
\* and in papanBandSrcValid[band] (when present).
C1_OwnValidityBitGates ==
    poWK.eResample = "GRA_NearestNeighbour" =>
        \A w \in written :
            /\ OwnBitValid(poWK.panUnifiedSrcValid, w.iSrcOffset)
            /\ poWK.papanBandSrcValid # NULL =>
                  OwnBitValid(poWK.papanBandSrcValid.to[w.iBand], w.iSrcOffset)

IntegerTypes == {"GDT_Byte", "GDT_Int16", "GDT_UInt16", "GDT_Int32", "GDT_UInt32",
                 "GDT_CInt16", "GDT_CInt32"}

\* <<MIN, MAX>> of an integer format
IntegerLimits(eType) ==
    CASE eType = "GDT_Byte" -> <<DInt(0), DInt(255)>>
      [] eType \in {"GDT_Int16", "GDT_CInt16"} -> <<DInt(-32768), DInt(32767)>>
      [] eType = "GDT_UInt16" -> <<DInt(0), DInt(65535)>>
      [] eType \in {"GDT_Int32", "GDT_CInt32"} -> <<DBig(-32768, 0), DBig(32767, 65535)>>
      [] eType = "GDT_UInt32" -> <<DInt(0), DBig(65535, 65535)>>

\* v with its fraction dropped, the sign kept
TruncTowardZero(v) ==
    IF DLess(v, DInt(0))
    THEN LET m == DNeg(v) IN DNeg(<<m[1], m[2], 0>>)
    ELSE <<v[1], v[2], 0>>

Saturated(v, lim) ==
    IF DLess(v, lim[1]) THEN lim[1]
    ELSE IF DLess(lim[2], v) THEN lim[2]
    ELSE TruncTowardZero(v)

\* C2: storing v into an element of an integer format writes MIN when
\* v < MIN, MAX when v > MAX and v truncated toward zero otherwise, for the
\* real component and, in the complex formats, for the imaginary one.
C2_StoreSaturates ==
    (stored # NULL /\ poWK.eWorkingDataType \in IntegerTypes) =>
        LET c   == stored.to
            buf == papabyDstImage[c.iBand]
            lim == IntegerLimits(poWK.eWorkingDataType)
        IN  IF poWK.eWorkingDataType \in ComplexTypes
            THEN /\ buf[2 * c.iDstOffset] = Saturated(c.dfReal, lim)
                 /\ buf[2 * c.iDstOffset + 1] = Saturated(c.dfImag, lim)
            ELSE buf[c.iDstOffset] = Saturated(c.dfReal, lim)

\* the setting of the identity warp: a supported format, nearest neighbour, no
\* mask or density plane, equal geometry and offsets, a transformer that
\* leaves the points where they are and flags every one of them
IdentitySetup ==
    /\ poWK.eWorkingDataType \in RealTypes \cup ComplexTypes
    /\ poWK.eResample = "GRA_NearestNeighbour"
    /\ poWK.panUnifiedSrcValid = NULL /\ poWK.papanBandSrcValid = NULL
    /\ poWK.pafUnifiedSrcDensity = NULL
    /\ dstBefore.valid = NULL /\ dstBefore.density = NULL
    /\ poWK.nSrcXSize = poWK.nDstXSize /\ poWK.nSrcYSize = poWK.nDstYSize
    /\ poWK.nSrcXOff = poWK.nDstXOff /\ poWK.nSrcYOff = poWK.nDstYOff
    /\ poWK.pTransformerArg = Move(DInt(0), DInt(0), "all")

\* C3: after an identity warp has returned successfully every destination
\* element of every band equals the source element at the same index.
C3_IdentityWarpCopies ==
    (pc = "done" /\ eErr = CE_None /\ IdentitySetup) =>
        papabyDstImage = poWK.papabySrcImage

\* C4: when panDstValid is present, a destination pixel whose bit was set
\* when PerformWarp was entered keeps its value in every band.
C4_ValidDstPixelsKept ==
    dstBefore.valid # NULL =>
        \A i \in DstPixels(poWK) : OwnBitValid(dstBefore.valid, i) => PixelKept(i)

\* a warp has finished that wrote some pixels past others whose bit was set
C4_Witness ==
    /\ pc = "done"
    /\ dstBefore.valid # NULL
    /\ \E i \in DstPixels(poWK) : OwnBitValid(dstBefore.valid, i)
    /\ \E i \in DstPixels(poWK) : ~ PixelKept(i)

\* the last progress call was made after a row and returned false
Cancelled ==
    /\ progressCalls # <<>>
    /\ ~ progressCalls[Len(progressCalls)].ret
    /\ progressCalls[Len(progressCalls)].nRowsDone > 0

\* once the progress call after row R has returned false: the transformer
\* has been called for the rows 0..R only, no row is in progress, the result
\* is CE_Failure and the rows after R are as they were before the warp
CancelledState ==
    Cancelled =>
        LET nDone == progressCalls[Len(progressCalls)].nRowsDone
        IN  /\ Len(transformerCalls) = nDone
            /\ pc \in {"loop", "done"}
            /\ eErr = CE_Failure
            /\ \A i \in DstPixels(poWK) : i \div poWK.nDstXSize >= nDone => PixelKept(i)

\* C5: when the progress call made after row R returns false, PerformWarp
\* processes no further row, returns CE_Failure and leaves the destination
\* as the rows 0..R wrote it.
C5_CancelStopsWarp ==
    /\ [] CancelledState
    /\ [][Cancelled => (papabyDstImage' = papabyDstImage
                        /\ transformerCalls' = transformerCalls)]_vars

\* PerformWarp has returned after a cancellation in the middle of the image
C5_Witness ==
    /\ pc = "done"
    /\ Cancelled
    /\ progressCalls[Len(progressCalls)].nRowsDone < poWK.nDstYSize
    /\ written # {}

\* C6: every progress call follows the completion of a row, and an
\* uncancelled run makes exactly one call per row, the k-th with the fraction
\* dfProgressBase + dfProgressScale * k / nDstYSize, in non-decreasing order.
C6_ProgressOncePerRow ==
    /\ \A k \in 1 .. Len(progressCalls) : progressCalls[k].nRowsDone >= 1
    /\ (pc = "done" /\ eErr = CE_None) =>
          /\ Len(progressCalls) = poWK.nDstYSize
          /\ \A k \in 1 .. Len(progressCalls) :
                /\ progressCalls[k].nRowsDone = k
                /\ progressCalls[k].arg = ProgressArg(poWK, k - 1)
          /\ \A j, k \in 1 .. Len(progressCalls) :
                j < k => progressCalls[j].arg[1] <= progressCalls[k].arg[1]

\* C7: PerformWarp fails when the transformer returned overall false for a
\* row, and succeeds only if every row completed without cancellation and
\* without an overall false.
C7_TransformerFailureFails ==
    pc = "done" =>
        /\ (\E k \in 1 .. Len(transformerCalls) : ~ transformerCalls[k]) => eErr = CE_Failure
        /\ eErr = CE_None =>
              /\ Len(transformerCalls) = poWK.nDstYSize
              /\ \A k \in 1 .. Len(transformerCalls) : transformerCalls[k]
              /\ \A k \in 1 .. Len(progressCalls) : progressCalls[k].ret

\* a parameter record validation has to refuse
InvalidKernel ==
    \/ poWK.eWorkingDataType = "GDT_Unknown"
    \/ poWK.eResample \notin ResampleAlgs
    \/ poWK.nBands < 1
    \/ poWK.pfnTransformer = NULL

\* C8: on an invalid parameter record PerformWarp returns CE_Failure without
\* calling the transformer or the progress callback and without touching the
\* destination; a NULL progress callback is replaced by one that returns true.
C8_ValidateRefuses ==
    /\ InvalidKernel =>
          /\ progressCalls = <<>> /\ transformerCalls = <<>>
          /\ papabyDstImage = dstBefore.img
          /\ pc \in {"PerformWarp", "done"}
          /\ pc = "done" => eErr = CE_Failure
    /\ poWK.pfnProgress = NULL => pc # "crashed"

DMax(a, b) == IF DLess(a, b) THEN b ELSE a

\* C9: a writeback of a contribution of density d to destination pixel i
\* leaves bit i of panDstValid set (when present) and pafDstDensity[i] at the
\* larger of its previous value and d (when present).
C9_WritebackUpdatesMasks ==
    [][\A w \in written' \ written :
          /\ panDstValid' # NULL => OwnBitValid(panDstValid', w.iDstOffset)
          /\ pafDstDensity' # NULL =>
                pafDstDensity'.to[w.iDstOffset] =
                    DMax(pafDstDensity.to[w.iDstOffset], w.dfDensity)]_vars

\* the unified validity plane is present with no bit set, or the unified
\* density plane is present with every entry zero
SourceGatedOff ==
    \/ /\ poWK.panUnifiedSrcValid # NULL
       /\ \A w \in DOMAIN poWK.panUnifiedSrcValid.to : poWK.panUnifiedSrcValid.to[w] = {}
    \/ /\ poWK.pafUnifiedSrcDensity # NULL
       /\ \A i \in DOMAIN poWK.pafUnifiedSrcDensity.to :
             poWK.pafUnifiedSrcDensity.to[i] = DInt(0)

\* C10: with the source gated off by an all-zero unified validity plane or an
\* all-zero unified density plane, every destination band buffer stays as it
\* was before the warp.
C10_MaskGating == SourceGatedOff => papabyDstImage = dstBefore.img

\* a nearest neighbour identity warp over a gated-off source has run every row
C10_Witness ==
    /\ pc = "done" /\ eErr = CE_None
    /\ SourceGatedOff
    /\ poWK.eResample = "GRA_NearestNeighbour"
    /\ poWK.pTransformerArg = Move(DInt(0), DInt(0), "all")
    /\ poWK.nBands >= 1
    /\ Len(transformerCalls) = poWK.nDstYSize /\ poWK.nDstYSize > 0

\* no source or destination mask or density plane
NoPlanes ==
    /\ poWK.panUnifiedSrcValid = NULL /\ poWK.papanBandSrcValid = NULL
    /\ poWK.pafUnifiedSrcDensity = NULL
    /\ dstBefore.valid = NULL /\ dstBefore.density = NULL

\* the 2x2 Byte source 10, 20, 30, 40 and the 1x1 destination whose pixel
\* the transformer maps to source coordinate (1.0, 1.0)
BilinearCentreSetup ==
    /\ poWK.eResample = "GRA_Bilinear" /\ poWK.eWorkingDataType = "GDT_Byte"
    /\ poWK.nBands = 1 /\ NoPlanes
    /\ poWK.nSrcXSize = 2 /\ poWK.nSrcYSize = 2
    /\ poWK.nDstXSize = 1 /\ poWK.nDstYSize = 1
    /\ \A s \in 0 .. 3 : poWK.papabySrcImage[0][s] = DInt(10 * (s + 1))
    /\ TransformX(poWK, 0) = DInt(1) /\ TransformY(poWK, 0) = DInt(1)
    /\ TransformSuccess(poWK, 0) = 1

\* an interpolating identity warp of a Byte image of one value, which has
\* the whole 4x4 neighbourhood of pixel (1, 1) inside the window
FlatSetup ==
    /\ poWK.eResample \in {"GRA_Bilinear", "GRA_Cubic"}
    /\ poWK.eWorkingDataType = "GDT_Byte" /\ poWK.nBands = 1 /\ NoPlanes
    /\ poWK.nSrcXSize = poWK.nDstXSize /\ poWK.nSrcYSize = poWK.nDstYSize
    /\ poWK.nSrcXSize >= 4 /\ poWK.nSrcYSize >= 4
    /\ poWK.nSrcXOff = 0 /\ poWK.nSrcYOff = 0 /\ poWK.nDstXOff = 0 /\ poWK.nDstYOff = 0
    /\ poWK.pTransformerArg = Move(DInt(0), DInt(0), "all")
    /\ \A s \in DOMAIN poWK.papabySrcImage[0] : poWK.papabySrcImage[0][s] = DInt(9)

\* C11: Bilinear resampling writes the normalised mean of its four taps, 25
\* for the source 10, 20, 30, 40 sampled at (1.0, 1.0); Bilinear and Cubic
\* sampling of a fully valid neighbourhood of equal values writes that value.
C11_InterpolationMean ==
    (pc = "done" /\ eErr = CE_None) =>
        /\ BilinearCentreSetup => papabyDstImage[0][0] = DInt(25)
        /\ FlatSetup => papabyDstImage[0][1 + poWK.nDstXSize] = DInt(9)

\* C12: a destination pixel whose pabSuccess flag is zero is skipped, no band
\* of it is modified; and PerformWarp still returns CE_None unless a progress
\* call returned false, however many pixels were skipped.
C12_FailedPointsSkipped ==
    /\ \A i \in DstPixels(poWK) :
          TransformSuccess(poWK, i % poWK.nDstXSize) = 0 => PixelKept(i)
    /\ (pc = "done" /\ \A k \in 1 .. Len(progressCalls) : progressCalls[k].ret) =>
          eErr = CE_None

\* a successful nearest neighbour warp has passed over an unmapped pixel whose
\* source value differs from the destination's and has written a mapped one
C12_Witness ==
    /\ pc = "done" /\ eErr = CE_None
    /\ poWK.eResample = "GRA_NearestNeighbour" /\ NoPlanes
    /\ poWK.pTransformerArg = Move(DInt(0), DInt(0), "odd")
    /\ poWK.nSrcXOff = 0 /\ poWK.nSrcYOff = 0 /\ poWK.nDstXOff = 0 /\ poWK.nDstYOff = 0
    /\ written # {}
    /\ \E i \in DstPixels(poWK) :
          /\ TransformSuccess(poWK, i % poWK.nDstXSize) = 0
          /\ poWK.nBands >= 1
          /\ i \in DOMAIN poWK.papabySrcImage[0]
          /\ poWK.papabySrcImage[0][i] # papabyDstImage[0][i]

\* one of the four image dimensions is zero
ZeroSized ==
    poWK.nDstXSize = 0 \/ poWK.nDstYSize = 0 \/ poWK.nSrcXSize = 0 \/ poWK.nSrcYSize = 0

\* C13: when a dimension of the source or destination image is zero,
\* PerformWarp returns CE_None and leaves every destination band, the
\* destination validity mask and the destination density as they were.
C13_ZeroSizeNoOp ==
    (pc = "done" /\ ZeroSized) =>
        /\ eErr = CE_None
        /\ papabyDstImage = dstBefore.img
        /\ panDstValid = dstBefore.valid
        /\ pafDstDensity = dstBefore.density

\* floor of a double, as a double
DFloor(a) == <<a[1], a[2], 0>>

\* floor of the transformed coordinate of destination pixel i
FloorX(i) == DFloor(TransformX(poWK, i % poWK.nDstXSize))

FloorY(i) == DFloor(TransformY(poWK, i \div poWK.nDstXSize))

\* the floor of the window-local coordinate is a pixel of the source window
FloorSrcInWindow(i) ==
    /\ ~ DLess(FloorX(i), DInt(poWK.nSrcXOff))
    /\ DLess(FloorX(i), DInt(poWK.nSrcXOff + poWK.nSrcXSize))
    /\ ~ DLess(FloorY(i), DInt(poWK.nSrcYOff))
    /\ DLess(FloorY(i), DInt(poWK.nSrcYOff + poWK.nSrcYSize))

\* the source pixel under the transformed centre of a destination pixel i
\* that falls into the window
FloorSrcX(i) == DToInt(FloorX(i)) - poWK.nSrcXOff

FloorSrcY(i) == DToInt(FloorY(i)) - poWK.nSrcYOff

FloorSrcOffset(i) == FloorSrcX(i) + FloorSrcY(i) * poWK.nSrcXSize

\* source pixel s of band b is valid by its own mask bits and has a density
\* other than zero
SrcUsable(b, s) ==
    /\ OwnBitValid(poWK.panUnifiedSrcValid, s)
    /\ \/ poWK.papanBandSrcValid = NULL
       \/ OwnBitValid(poWK.papanBandSrcValid.to[b], s)
    /\ poWK.pafUnifiedSrcDensity # NULL => poWK.pafUnifiedSrcDensity.to[s] # DInt(0)

\* C14: with panDstValid present, a destination pixel whose own bit is clear,
\* whose pabSuccess flag is set and whose nearest source pixel is inside the
\* window, valid and of non-zero density is written in every band by a warp
\* that ran to the end, whatever the other bits of its mask word are.
C14_OnlyOwnDstBitSkips ==
    (/\ pc = "done" /\ eErr = CE_None
     /\ poWK.eResample = "GRA_NearestNeighbour"
     /\ dstBefore.valid # NULL) =>
        \A i \in DstPixels(poWK) : \A b \in 0 .. poWK.nBands - 1 :
            (/\ ~ OwnBitValid(dstBefore.valid, i)
             /\ TransformSuccess(poWK, i % poWK.nDstXSize) = 1
             /\ FloorSrcInWindow(i)
             /\ SrcUsable(b, FloorSrcOffset(i))) =>
                \E w \in written : w.iBand = b /\ w.iDstOffset = i

\* C16: under nearest neighbour resampling the source pixel loaded for a
\* destination pixel is (floor(x - nSrcXOff), floor(y - nSrcYOff)) of its
\* transformed coordinate (x, y), negative coordinates with negative window
\* offsets included.
C16_NearestTakesFloor ==
    poWK.eResample = "GRA_NearestNeighbour" =>
        \A l \in sampled :
            /\ DInt(l.iSrcX + poWK.nSrcXOff) = FloorX(l.iDstOffset)
            /\ DInt(l.iSrcY + poWK.nSrcYOff) = FloorY(l.iDstOffset)

\* C15: every source pixel handed to GWKGetPixelValue during a PerformWarp run
\* lies in the source window, 0 <= iSrcX < nSrcXSize and
\* 0 <= iSrcY < nSrcYSize, so 0 <= iSrcOffset < nSrcXSize * nSrcYSize, for
\* every finite transformer output and every window offset; and every
\* destination index written lies in [0, nDstXSize * nDstYSize).
C15_IndicesInRange ==
    /\ \A l \in sampled :
          /\ l.iSrcX >= 0 /\ l.iSrcX < poWK.nSrcXSize
          /\ l.iSrcY >= 0 /\ l.iSrcY < poWK.nSrcYSize
          /\ l.iSrcOffset >= 0 /\ l.iSrcOffset < poWK.nSrcXSize * poWK.nSrcYSize
    /\ \A w \in written : w.iDstOffset \in DstPixels(poWK)

\* slot of the real / imaginary component of element i
RealSlot(wk, i) == IF wk.eWorkingDataType \in ComplexTypes THEN 2 * i ELSE i

ImagSlot(wk, i) == 2 * i + 1

KnownFormat == poWK.eWorkingDataType \in RealTypes \cup ComplexTypes

\* C17: the element stride is uniform. A load of element i of a complex
\* format yields slots 2i and 2i+1, of a real format slot i with imag = 0.
\* A store of element i changes slots 2i and 2i+1 of a complex buffer, slot i
\* of a real one, and no other slot; so a nearest neighbour warp changes
\* only the elements it stores, and the real slot stored is a function of
\* the real component loaded alone, the imaginary slot of the imaginary
\* component alone.
C17_UniformStride ==
    KnownFormat =>
        /\ \A w \in written :
              InSource(poWK, w.iSrcOffset) =>
                 /\ w.dfReal = poWK.papabySrcImage[w.iBand][RealSlot(poWK, w.iSrcOffset)]
                 /\ w.dfImag = IF poWK.eWorkingDataType \in ComplexTypes
                               THEN poWK.papabySrcImage[w.iBand][ImagSlot(poWK, w.iSrcOffset)]
                               ELSE DInt(0)
        /\ \A b \in DOMAIN papabyDstImage : \A s \in DOMAIN papabyDstImage[b] :
              papabyDstImage[b][s] # dstBefore.img[b][s] =>
                 \E w \in written : w.iBand = b /\ s \in ElementSlots(poWK, w.iDstOffset)
        /\ \A w \in written : \A dfOther \in StoreImags :
              /\ GWKSetPixelValue(poWK, dstBefore.img[w.iBand], w.iDstOffset, w.dfDensity,
                                  w.dfReal, dfOther)[RealSlot(poWK, w.iDstOffset)]
                    = papabyDstImage[w.iBand][RealSlot(poWK, w.iDstOffset)]
              /\ poWK.eWorkingDataType \in ComplexTypes =>
                    GWKSetPixelValue(poWK, dstBefore.img[w.iBand], w.iDstOffset, w.dfDensity,
                                     dfOther, w.dfImag)[ImagSlot(poWK, w.iDstOffset)]
                       = papabyDstImage[w.iBand][ImagSlot(poWK, w.iDstOffset)]

\* a nearest neighbour warp of a complex image has copied element 5, whose
\* components differ, into slots 10 and 11 of the destination
C17_Witness ==
    /\ pc = "done" /\ eErr = CE_None
    /\ poWK.eWorkingDataType = "GDT_CInt16"
    /\ poWK.eResample = "GRA_NearestNeighbour"
    /\ \E w \in written :
          /\ w.iBand = 0 /\ w.iSrcOffset = 5 /\ w.iDstOffset = 5
          /\ w.dfReal = DInt(10) /\ w.dfImag = DInt(11)
    /\ papabyDstImage[0][10] = DInt(10) /\ papabyDstImage[0][11] = DInt(11)
    /\ dstBefore.img[0][10] = DInt(0) /\ dstBefore.img[0][11] = DInt(0)

====
